---- MODULE Spec2Model ----
(***************************************************************************)
(* The two Terraform resources of the Sonatype IQ provider:                *)
(*   sonatypeiq_source_control            (source_control_resource.go)     *)
(*   sonatypeiq_application_role_membership                                *)
(*                              (application_role_membership_resource.go)  *)
(* Each resource is a set of handlers (ConfigValidators, Create, Read,     *)
(* Delete) that the host calls one at a time on one record.  The remote    *)
(* IQ server and the host's state store are the environment.               *)
(*                                                                         *)
(* Values.  A types.String / types.Bool and a Go pointer are modelled as a *)
(* sequence of length at most one: << >> is null (or nil), <<v>> is the    *)
(* known value v (or a pointer to v).  The state entry, the plan, the HTTP *)
(* response and the error value are optional in the same way.              *)
(***************************************************************************)
EXTENDS Integers, Sequences, FiniteSets, TLC

VARIABLES
    resource,   \* which resource block the host reconciles in this run
    scPlan,     \* source control: validated configuration awaiting Create
    scState,    \* source control: the entry in the host's state store
    scRemote,   \* source control: the link held by the IQ server
    scCreated,  \* source control: history, the record the last Create wrote
    rmPlan,     \* role membership: validated configuration awaiting Create
    rmState,    \* role membership: the entry in the host's state store
    rmRemote,   \* role membership: the members held by the IQ server
    rmPrev,     \* role membership: history, the record of this very
                \* configuration that was created and deleted before
    gone,       \* history: the record the last successful Delete was given
    createCall, \* history: the request of the Create that wrote the record
    last        \* the most recent handler invocation and what came of it

vars ==
    <<resource, scPlan, scState, scRemote, scCreated,
      rmPlan, rmState, rmRemote, rmPrev, gone, createCall, last>>

scVars == <<scPlan, scState, scRemote, scCreated>>

rmVars == <<rmPlan, rmState, rmRemote, rmPrev>>

-----------------------------------------------------------------------------
(* Bounds of the model *)

\* Most role members the server holds at a time.
MaxMembers == 2

(* Program constants *)

\* http.StatusNotFound
StatusNotFound == 404

-----------------------------------------------------------------------------
(* Framework values and generated-client accessors *)

Nil == << >>

Null == << >>

IsNull(v) == v = << >>

StringValue(s) == <<s>>

BoolValue(b) == <<b>>

\* types.String.ValueString: the empty string for null.
ValueString(v) == IF IsNull(v) THEN "" ELSE v[1]

\* types.String.ValueStringPointer: nil for null, else a pointer to the value.
ValueStringPointer(v) == IF IsNull(v) THEN Nil ELSE <<v[1]>>

\* types.Bool.ValueBoolPointer: nil for null, else a pointer to the value.
ValueBoolPointer(v) == IF IsNull(v) THEN Nil ELSE <<v[1]>>

\* The generated getters GetId, GetToken, ...: the zero value for a nil field.
GetString(p) == IF p = Nil THEN "" ELSE p[1]

\* The generated getters Get...Enabled: false for a nil field.
GetBool(p) == IF p = Nil THEN FALSE ELSE p[1]

\* resourcevalidator.ExactlyOneOf over two attributes.
ExactlyOneOfBroken(a, b) == ~(IsNull(a) /\ IsNull(b))

ExactlyOneOf(a, b) == (IsNull(a) /\ ~IsNull(b)) \/ (~IsNull(a) /\ IsNull(b))

-----------------------------------------------------------------------------
(* What a remote call comes to *)

\* served: the server answers truthfully; rejected: it answers with a failure
\* status; unreachable: the call does not complete and no response exists.
Outcomes == {"served", "rejected", "unreachable"}

\* What Plan.Get / State.Get / State.Set of the framework come to.
FrameworkOutcomes == {"ok", "get_error", "set_error"}

HttpOK == <<[StatusCode |-> 200, Status |-> "200 OK", Body |-> ""]>>

HttpNotFound ==
    <<[StatusCode |-> StatusNotFound, Status |-> "404 Not Found",
       Body |-> "not found"]>>

HttpServerError ==
    <<[StatusCode |-> 500, Status |-> "500 Internal Server Error",
       Body |-> "boom"]>>

TransportMessage == "dial tcp: connection refused"

\* The client's result for a call that did not complete: no response at all.
Unreachable(remote) ==
    [body |-> Nil, resp |-> Nil, err |-> <<TransportMessage>>, remote |-> remote]

\* The client's result for a non-2xx answer.
Failed(resp, remote) ==
    [body |-> Nil, resp |-> resp, err |-> <<resp[1].Status>>, remote |-> remote]

Succeeded(body, remote) ==
    [body |-> body, resp |-> HttpOK, err |-> Nil, remote |-> remote]

\* Diagnostics.AddError(summary, detail)
AddError(summary, detail) == <<[summary |-> summary, detail |-> detail]>>

FrameworkError == AddError("Value Conversion Error", "")

Admin ==
    [op |-> "admin", data |-> Nil, call |-> Nil, res |-> Nil, diag |-> Nil,
     panic |-> FALSE, removed |-> FALSE, set |-> FALSE]

NoOp ==
    [op |-> "none", data |-> Nil, call |-> Nil, res |-> Nil, diag |-> Nil,
     panic |-> FALSE, removed |-> FALSE, set |-> FALSE]

\* One handler invocation: the record it decoded, the call it issued, the
\* client's result, the diagnostics, whether it panicked, and whether it
\* called State.RemoveResource / State.Set.
Invocation(op, data, call, res, diag, panic, removed, set) ==
    [op |-> op, data |-> data, call |-> call, res |-> res, diag |-> diag,
     panic |-> panic, removed |-> removed, set |-> set]

-----------------------------------------------------------------------------
(* Source control: sourceControlModelResource and its configuration domain *)

\* The optional attributes of a configuration, all unset.
Unset ==
    [RepositoryURL |-> Null, Token |-> Null, BaseBranch |-> Null,
     Provider |-> Null, RemediationPullRequestsEnabled |-> Null,
     PullRequestCommentingEnabled |-> Null,
     SourceControlEvaluationsEnabled |-> Null]

\* The optional attributes as users set them: none, each one alone, all of
\* them with the flags on, all of them with the flags off.
OptionalAttributes ==
    {Unset,
     [Unset EXCEPT !.RepositoryURL = StringValue("https://github.com/x/y")],
     [Unset EXCEPT !.Token = StringValue("t")],
     [Unset EXCEPT !.BaseBranch = StringValue("main")],
     [Unset EXCEPT !.Provider = StringValue("github")],
     [Unset EXCEPT !.RemediationPullRequestsEnabled = BoolValue(TRUE)],
     [Unset EXCEPT !.PullRequestCommentingEnabled = BoolValue(TRUE)],
     [Unset EXCEPT !.SourceControlEvaluationsEnabled = BoolValue(FALSE)],
     [RepositoryURL |-> StringValue("https://github.com/x/y"),
      Token |-> StringValue("t"), BaseBranch |-> StringValue("main"),
      Provider |-> StringValue("github"),
      RemediationPullRequestsEnabled |-> BoolValue(TRUE),
      PullRequestCommentingEnabled |-> BoolValue(TRUE),
      SourceControlEvaluationsEnabled |-> BoolValue(TRUE)],
     [RepositoryURL |-> StringValue("https://github.com/x/y"),
      Token |-> StringValue("t"), BaseBranch |-> StringValue("main"),
      Provider |-> StringValue("github"),
      RemediationPullRequestsEnabled |-> BoolValue(FALSE),
      PullRequestCommentingEnabled |-> BoolValue(FALSE),
      SourceControlEvaluationsEnabled |-> BoolValue(FALSE)]}

\* Every configuration a user can write, valid or not.  id is Computed and
\* so null in configuration and plan.
SCConfigs ==
    {[ID |-> Null, OrganizationID |-> org, ApplicationID |-> app,
      RepositoryURL |-> o.RepositoryURL, Token |-> o.Token,
      BaseBranch |-> o.BaseBranch, Provider |-> o.Provider,
      RemediationPullRequestsEnabled |-> o.RemediationPullRequestsEnabled,
      PullRequestCommentingEnabled |-> o.PullRequestCommentingEnabled,
      SourceControlEvaluationsEnabled |-> o.SourceControlEvaluationsEnabled] :
        org \in {Null, StringValue("org-1")},
        app \in {Null, StringValue("app-1")},
        o \in OptionalAttributes}

\* Identifiers the server assigns to a source control link.
ServerIds == {"sc-1", "sc-2"}

\* ApiSourceControlDTO with no field set.
ZeroDTO ==
    [Id |-> Nil, BaseBranch |-> Nil, RepositoryUrl |-> Nil, Token |-> Nil,
     Provider |-> Nil, EnablePullRequests |-> Nil,
     RemediationPullRequestsEnabled |-> Nil,
     PullRequestCommentingEnabled |-> Nil,
     SourceControlEvaluationsEnabled |-> Nil]

\* Links as an administrator may have edited them on the server.
EditedDTOs ==
    {[ZeroDTO EXCEPT !.BaseBranch = <<"dev">>, !.Provider = <<"gitlab">>,
                     !.RepositoryUrl = <<"https://gitlab.com/x/y">>,
                     !.Token = <<"#~FAKE~SECRET~KEY~#">>,
                     !.RemediationPullRequestsEnabled = <<TRUE>>,
                     !.PullRequestCommentingEnabled = <<TRUE>>,
                     !.SourceControlEvaluationsEnabled = <<TRUE>>],
     [ZeroDTO EXCEPT !.BaseBranch = <<"main">>,
                     !.EnablePullRequests = <<TRUE>>,
                     !.SourceControlEvaluationsEnabled = <<FALSE>>]}

\* The resource validator: exactly one of organization_id, application_id.
SCConfigValid(cfg) == ExactlyOneOf(cfg.OrganizationID, cfg.ApplicationID)

\* Create's owner resolution.
SCCreateOwner(data) ==
    IF ~IsNull(data.ApplicationID)
    THEN <<"application", ValueString(data.ApplicationID)>>
    ELSE <<"organization", ValueString(data.OrganizationID)>>

\* Read's owner resolution.
SCReadOwner(data) ==
    IF ~IsNull(data.ApplicationID)
    THEN <<"application", ValueString(data.ApplicationID)>>
    ELSE <<"organization", ValueString(data.OrganizationID)>>

\* Delete's owner resolution.
SCDeleteOwner(data) ==
    IF ~IsNull(data.ApplicationID)
    THEN <<"application", ValueString(data.ApplicationID)>>
    ELSE <<"organization", ValueString(data.OrganizationID)>>

\* The payload Create builds from the plan.
SCCreateDTO(data) ==
    [Id |-> Nil,
     BaseBranch |-> ValueStringPointer(data.BaseBranch),
     RepositoryUrl |-> ValueStringPointer(data.RepositoryURL),
     Token |-> ValueStringPointer(data.Token),
     Provider |-> ValueStringPointer(data.Provider),
     EnablePullRequests |-> ValueBoolPointer(data.PullRequestCommentingEnabled),
     RemediationPullRequestsEnabled |->
         ValueBoolPointer(data.RemediationPullRequestsEnabled),
     PullRequestCommentingEnabled |-> Nil,
     SourceControlEvaluationsEnabled |->
         ValueBoolPointer(data.SourceControlEvaluationsEnabled)]

\* The request Create executes.  AddSourceControl returns the request by
\* value and ApiSourceControlDTO returns a copy that carries the payload;
\* Create drops that copy and executes the first request, so the payload it
\* built (built) never travels (body is nil).
SCCreateCall(data) ==
    [api |-> "AddSourceControl",
     ownerType |-> SCCreateOwner(data)[1],
     internalOwnerId |-> SCCreateOwner(data)[2],
     built |-> <<SCCreateDTO(data)>>,
     body |-> Nil]

SCReadCall(data) ==
    [api |-> "GetSourceControl1",
     ownerType |-> SCReadOwner(data)[1],
     internalOwnerId |-> SCReadOwner(data)[2]]

SCDeleteCall(data) ==
    [api |-> "DeleteSourceControl",
     ownerType |-> SCDeleteOwner(data)[1],
     internalOwnerId |-> SCDeleteOwner(data)[2]]

\* Read's mapping of the response onto the prior state.
SCReadDataKeepId(data, dto) ==
    [data EXCEPT
       !.RepositoryURL = StringValue(GetString(dto.RepositoryUrl)),
       !.Token = StringValue(GetString(dto.Token)),
       !.BaseBranch = StringValue(GetString(dto.BaseBranch)),
       !.Provider = StringValue(GetString(dto.Provider)),
       !.RemediationPullRequestsEnabled =
           BoolValue(GetBool(dto.RemediationPullRequestsEnabled)),
       !.PullRequestCommentingEnabled =
           BoolValue(GetBool(dto.PullRequestCommentingEnabled)),
       !.SourceControlEvaluationsEnabled =
           BoolValue(GetBool(dto.SourceControlEvaluationsEnabled))]

SCReadData(data, dto) ==
    [data EXCEPT
       !.ID = StringValue(GetString(dto.Id)),
       !.RepositoryURL = StringValue(GetString(dto.RepositoryUrl)),
       !.Token = StringValue(GetString(dto.Token)),
       !.BaseBranch = StringValue(GetString(dto.BaseBranch)),
       !.Provider = StringValue(GetString(dto.Provider)),
       !.RemediationPullRequestsEnabled =
           BoolValue(GetBool(dto.RemediationPullRequestsEnabled)),
       !.PullRequestCommentingEnabled =
           BoolValue(GetBool(dto.PullRequestCommentingEnabled)),
       !.SourceControlEvaluationsEnabled =
           BoolValue(GetBool(dto.SourceControlEvaluationsEnabled))]

-----------------------------------------------------------------------------
(* Source control: the IQ server behind the generated client *)

\* Whether the server holds a link under the scope a call names.
SCHolds(remote, call) ==
    /\ remote # Nil
    /\ remote[1].ownerType = call.ownerType
    /\ remote[1].internalOwnerId = call.internalOwnerId

\* The payload a request carries: the zero value when none was attached.
RequestBody(call) == IF call.body = Nil THEN ZeroDTO ELSE call.body[1]

\* createSourceControlLink: the server stores what the request carried and
\* issues an identifier.
AddSourceControlExecute(remote, call, out, id) ==
    CASE out = "unreachable" -> Unreachable(remote)
      [] out = "rejected" -> Failed(HttpServerError, remote)
      [] OTHER ->
           LET stored == [RequestBody(call) EXCEPT !.Id = <<id>>]
           IN  Succeeded(<<stored>>,
                         <<[ownerType |-> call.ownerType,
                            internalOwnerId |-> call.internalOwnerId,
                            dto |-> stored]>>)

\* fetchSourceControlLink: 404 is the designated "absent" signal.
GetSourceControl1Execute(remote, call, out) ==
    CASE out = "unreachable" -> Unreachable(remote)
      [] out = "rejected" -> Failed(HttpServerError, remote)
      [] OTHER ->
           IF SCHolds(remote, call)
           THEN Succeeded(<<remote[1].dto>>, remote)
           ELSE Failed(HttpNotFound, remote)

\* deleteSourceControlLink
DeleteSourceControlExecute(remote, call, out) ==
    CASE out = "unreachable" -> Unreachable(remote)
      [] out = "rejected" -> Failed(HttpServerError, remote)
      [] OTHER ->
           IF SCHolds(remote, call)
           THEN Succeeded(Nil, Nil)
           ELSE Failed(HttpNotFound, remote)

-----------------------------------------------------------------------------
(* Source control: the handlers.  Each yields the state entry the host      *)
(* holds afterwards, the server's link afterwards, and the invocation.     *)

Result(state, remote, inv) == [state |-> state, remote |-> remote, inv |-> inv]

\* sourceControlResource.Create on plan `data`.
SCCreateHandler(data, prior, remote, fw, out, id) ==
    IF fw = "get_error"
    THEN Result(prior, remote,
                Invocation("create", Nil, Nil, Nil, FrameworkError,
                           FALSE, FALSE, FALSE))
    ELSE
      LET call == SCCreateCall(data)
          res == AddSourceControlExecute(remote, call, out, id)
      IN  IF res.err # Nil
          THEN IF res.resp = Nil
               THEN \* apiResponse.Body on a nil *http.Response
                    Result(prior, res.remote,
                           Invocation("create", <<data>>, <<call>>, res, Nil,
                                      TRUE, FALSE, FALSE))
               ELSE Result(prior, res.remote,
                           Invocation("create", <<data>>, <<call>>, res,
                               AddError("Error creating source control entry",
                                   "Could not create source control entry, unexpected error: "
                                   \o res.resp[1].Status \o ": "
                                   \o res.resp[1].Body),
                               FALSE, FALSE, FALSE))
          ELSE
            LET full == [data EXCEPT
                           !.ID = StringValue(GetString(res.body[1].Id))]
            IN  IF fw = "set_error"
                THEN Result(prior, res.remote,
                            Invocation("create", <<data>>, <<call>>, res,
                                       FrameworkError, FALSE, FALSE, FALSE))
                ELSE Result(<<full>>, res.remote,
                            Invocation("create", <<data>>, <<call>>, res, Nil,
                                       FALSE, FALSE, TRUE))

\* sourceControlResource.Read on prior state `data`.
SCReadHandler(data, prior, remote, fw, out) ==
    IF fw = "get_error"
    THEN Result(prior, remote,
                Invocation("read", Nil, Nil, Nil, FrameworkError,
                           FALSE, FALSE, FALSE))
    ELSE
      LET call == SCReadCall(data)
          res == GetSourceControl1Execute(remote, call, out)
      IN  IF res.err # Nil
          THEN IF res.resp = Nil
               THEN \* apiResponse.StatusCode on a nil *http.Response
                    Result(prior, res.remote,
                           Invocation("read", <<data>>, <<call>>, res, Nil,
                                      TRUE, FALSE, FALSE))
               ELSE IF res.resp[1].StatusCode = StatusNotFound
               THEN Result(Nil, res.remote,
                           Invocation("read", <<data>>, <<call>>, res, Nil,
                                      FALSE, TRUE, FALSE))
               ELSE Result(prior, res.remote,
                           Invocation("read", <<data>>, <<call>>, res,
                               AddError("Error Reading source control entry",
                                   "Could not read source control entry with ID "
                                   \o ValueString(data.ID) \o ": "
                                   \o res.err[1]),
                               FALSE, FALSE, FALSE))
          ELSE
            LET fresh == SCReadData(data, res.body[1])
            IN  IF fw = "set_error"
                THEN Result(prior, res.remote,
                            Invocation("read", <<data>>, <<call>>, res,
                                       FrameworkError, FALSE, FALSE, FALSE))
                ELSE Result(<<fresh>>, res.remote,
                            Invocation("read", <<data>>, <<call>>, res, Nil,
                                       FALSE, FALSE, TRUE))

\* sourceControlResource.Delete on prior state `data`.  The handler leaves
\* the response state alone; the host drops the entry when the handler
\* returns without an error diagnostic.
SCDeleteHandler(data, prior, remote, fw, out) ==
    IF fw = "get_error"
    THEN Result(prior, remote,
                Invocation("delete", Nil, Nil, Nil, FrameworkError,
                           FALSE, FALSE, FALSE))
    ELSE
      LET call == SCDeleteCall(data)
          res == DeleteSourceControlExecute(remote, call, out)
      IN  IF res.err # Nil
          THEN IF res.resp = Nil
               THEN \* apiResponse.Body on a nil *http.Response
                    Result(prior, res.remote,
                           Invocation("delete", <<data>>, <<call>>, res, Nil,
                                      TRUE, FALSE, FALSE))
               ELSE Result(prior, res.remote,
                           Invocation("delete", <<data>>, <<call>>, res,
                               AddError("Error deleting source control entry",
                                   "Could not delete source control entry, unexpected error: "
                                   \o res.resp[1].Status \o ": "
                                   \o res.resp[1].Body),
                               FALSE, FALSE, FALSE))
          ELSE Result(Nil, res.remote,
                      Invocation("delete", <<data>>, <<call>>, res, Nil,
                                 FALSE, TRUE, FALSE))

-----------------------------------------------------------------------------
(* Source control: the steps of the host and of the server's administrators *)

\* The host validates a configuration before it plans a Create; a rejected
\* configuration never becomes a plan.
SCValidate(cfg) ==
    /\ resource = "source_control"
    /\ scState = Nil
    /\ scPlan' = IF SCConfigValid(cfg) THEN <<cfg>> ELSE Nil
    /\ last' = Invocation("validate", <<cfg>>, Nil, Nil,
                   IF SCConfigValid(cfg) THEN Nil
                   ELSE AddError("Invalid Attribute Combination",
                                 "Exactly one of these attributes must be configured: [organization_id,application_id]"),
                   FALSE, FALSE, FALSE)
    /\ gone' = Nil
    /\ createCall' = Nil
    /\ UNCHANGED <<resource, scState, scRemote, scCreated, rmVars>>

SCCreate(fw, out, id) ==
    /\ resource = "source_control"
    /\ scPlan # Nil
    /\ scState = Nil
    /\ LET r == SCCreateHandler(scPlan[1], scState, scRemote, fw, out, id)
       IN  /\ scState' = r.state
           /\ scRemote' = r.remote
           /\ last' = r.inv
           /\ scCreated' = r.state
           /\ createCall' = IF r.state # Nil THEN r.inv.call ELSE Nil
    /\ scPlan' = Nil
    /\ gone' = Nil
    /\ UNCHANGED <<resource, rmVars>>

\* Read is given the entry of the state store; right after a Delete the host
\* may still refresh the record it has just deleted.
SCRead(fw, out) ==
    /\ resource = "source_control"
    /\ scState # Nil \/ gone # Nil
    /\ LET data == IF scState # Nil THEN scState[1] ELSE gone[1]
           r == SCReadHandler(data, scState, scRemote, fw, out)
       IN  /\ scState' = r.state
           /\ scRemote' = r.remote
           /\ last' = r.inv
    /\ gone' = IF scState' # Nil THEN Nil ELSE gone
    /\ UNCHANGED <<resource, createCall, scPlan, scCreated, rmVars>>

SCDelete(fw, out) ==
    /\ resource = "source_control"
    /\ scState # Nil
    /\ LET r == SCDeleteHandler(scState[1], scState, scRemote, fw, out)
       IN  /\ scState' = r.state
           /\ scRemote' = r.remote
           /\ last' = r.inv
           /\ gone' = IF r.state = Nil THEN scState ELSE gone
    /\ UNCHANGED <<resource, createCall, scPlan, scCreated, rmVars>>

\* An administrator edits or removes the link on the server.
SCRemoteEdit(dto, id) ==
    /\ resource = "source_control"
    /\ scRemote # Nil
    /\ scState # Nil
    /\ scRemote' = <<[scRemote[1] EXCEPT !.dto = [dto EXCEPT !.Id = <<id>>]]>>
    /\ scRemote' # scRemote
    /\ last' = Admin
    /\ UNCHANGED <<resource, createCall, scPlan, scState, scCreated, rmVars,
                   gone>>

SCRemoteRemove ==
    /\ resource = "source_control"
    /\ scRemote # Nil
    /\ scState # Nil
    /\ scRemote' = Nil
    /\ last' = Admin
    /\ UNCHANGED <<resource, createCall, scPlan, scState, scCreated, rmVars,
                   gone>>

-----------------------------------------------------------------------------
(* Role membership: applicationRoleMembershipModelResource and its domain *)

RoleIds == {"role-9", "x_role-9"}

AppIds == {"app-1", "app-1_x"}

\* Every configuration a user can write, valid or not; role_id and
\* application_id are Required, id is Computed.
RMConfigs ==
    [ID : {Null},
     RoleId : {StringValue(r) : r \in RoleIds},
     ApplicationId : {StringValue(a) : a \in AppIds},
     UserName : {Null, StringValue("alice")},
     GroupName : {Null, StringValue("alice")}]

\* The resource validator: exactly one of user_name, group_name.
RMConfigValid(cfg) == ExactlyOneOf(cfg.UserName, cfg.GroupName)

\* A member as the server holds and lists it (ApiMemberDTO under the role
\* of its ApiRoleMemberMappingDTO).
Member(role, type, name, ownerType, ownerId) ==
    [RoleId |-> role, Type |-> type, UserOrGroupName |-> name,
     OwnerType |-> ownerType, OwnerId |-> ownerId]

\* The members administrators grant on the server: the ones a configuration
\* can name, a group of another name, and a user on the organization above
\* the applications, from which they inherit it.
AllMembers ==
    {Member(r, t, "alice", "APPLICATION", "app-1") :
        r \in RoleIds, t \in {"USER", "GROUP"}}
    \cup {Member("role-9", "GROUP", "devs", "APPLICATION", "app-1"),
          Member("role-9", "USER", "alice", "ORGANIZATION", "org-1")}

\* Create's member resolution.
RMCreateMember(data) ==
    IF ~IsNull(data.GroupName)
    THEN <<"group", ValueString(data.GroupName)>>
    ELSE <<"user", ValueString(data.UserName)>>

\* Read's member resolution.
RMReadMember(data) ==
    IF ~IsNull(data.GroupName)
    THEN <<"GROUP", ValueString(data.GroupName)>>
    ELSE <<"USER", ValueString(data.UserName)>>

\* Delete's member resolution.
RMDeleteMemberUpper(data) ==
    IF ~IsNull(data.GroupName)
    THEN <<"GROUP", ValueString(data.GroupName)>>
    ELSE <<"USER", ValueString(data.UserName)>>

RMDeleteMember(data) ==
    IF ~IsNull(data.GroupName)
    THEN <<"group", ValueString(data.GroupName)>>
    ELSE <<"user", ValueString(data.UserName)>>

RMCreateCall(data) ==
    [api |-> "GrantRoleMembershipApplicationOrOrganization",
     ownerType |-> "application",
     internalOwnerId |-> ValueString(data.ApplicationId),
     roleId |-> ValueString(data.RoleId),
     memberType |-> RMCreateMember(data)[1],
     memberName |-> RMCreateMember(data)[2]]

RMReadCall(data) ==
    [api |-> "GetRoleMembershipsApplicationOrOrganization",
     ownerType |-> "application",
     internalOwnerId |-> ValueString(data.ApplicationId)]

RMDeleteCall(data) ==
    [api |-> "RevokeRoleMembershipApplicationOrOrganization",
     ownerType |-> "application",
     internalOwnerId |-> ValueString(data.ApplicationId),
     roleId |-> ValueString(data.RoleId),
     memberType |-> RMDeleteMember(data)[1],
     memberName |-> RMDeleteMember(data)[2]]

\* fmt.Sprintf("%s_%s_%s_%s", applicationId, roleId, memberType, memberName)
SyntheticIDNoKind(applicationId, roleId, memberType, memberName) ==
    applicationId \o "_" \o roleId \o "_" \o memberName

SyntheticID(applicationId, roleId, memberType, memberName) ==
    applicationId \o "_" \o roleId \o "_" \o memberType \o "_" \o memberName

\* The record Create writes to state.
RMCreateData(data) ==
    [data EXCEPT
       !.ID = StringValue(SyntheticID(ValueString(data.ApplicationId),
                                      ValueString(data.RoleId),
                                      RMCreateMember(data)[1],
                                      RMCreateMember(data)[2]))]

\* The test of Read's inner loop on one listed member.
MemberMatchesAnyKind(member, data, memberType, memberName) ==
    /\ member.UserOrGroupName = memberName
    /\ member.OwnerType = "APPLICATION"
    /\ member.OwnerId = ValueString(data.ApplicationId)

MemberMatchesAnyOwner(member, data, memberType, memberName) ==
    /\ member.Type = memberType
    /\ member.UserOrGroupName = memberName

MemberMatches(member, data, memberType, memberName) ==
    /\ member.Type = memberType
    /\ member.UserOrGroupName = memberName
    /\ member.OwnerType = "APPLICATION"
    /\ member.OwnerId = ValueString(data.ApplicationId)

\* Read's inner loop over the members of one mapping, from member j on:
\* found is the pointer held so far, and every match overwrites it.
RECURSIVE ScanMembers(_, _, _, _, _, _)
ScanMembers(members, j, found, data, memberType, memberName) ==
    IF j > Len(members)
    THEN found
    ELSE ScanMembers(members, j + 1,
                     IF MemberMatches(members[j], data, memberType, memberName)
                     THEN <<members[j]>> ELSE found,
                     data, memberType, memberName)

\* Read's outer loop over the mappings, from mapping i on.
RECURSIVE ScanMappings(_, _, _, _, _, _)
ScanMappings(mappings, i, found, data, memberType, memberName) ==
    IF i > Len(mappings)
    THEN found
    ELSE ScanMappings(mappings, i + 1,
                      IF mappings[i].RoleId = ValueString(data.RoleId)
                      THEN ScanMembers(mappings[i].Members, 1, found, data,
                                       memberType, memberName)
                      ELSE found,
                      data, memberType, memberName)

-----------------------------------------------------------------------------
(* Role membership: the IQ server behind the generated client *)

\* The server's name for the kind a call names in lower case.
Upper(kind) ==
    CASE kind = "user" -> "USER"
      [] kind = "group" -> "GROUP"
      [] kind = "application" -> "APPLICATION"
      [] kind = "organization" -> "ORGANIZATION"
      [] OTHER -> kind

\* The member a grant or revoke call names.
Named(call) ==
    Member(call.roleId, Upper(call.memberType), call.memberName,
           Upper(call.ownerType), call.internalOwnerId)

\* The members a list call for an application shows: its own and those
\* inherited from the organization.
Visible(remote, call) ==
    {m \in remote :
        \/ m.OwnerType = "ORGANIZATION"
        \/ /\ m.OwnerType = Upper(call.ownerType)
           /\ m.OwnerId = call.internalOwnerId}

\* ApiMemberDTO: a member without the role it is listed under.
Listed(m) ==
    [Type |-> m.Type, UserOrGroupName |-> m.UserOrGroupName,
     OwnerType |-> m.OwnerType, OwnerId |-> m.OwnerId]

\* The orders in which the members of S can be listed, each once.
Arrangements(S) ==
    {f \in [1..Cardinality(S) -> S] : {f[i] : i \in 1..Cardinality(S)} = S}

\* The same, with or without the first member listed once more at the end.
Orders(S) ==
    Arrangements(S)
    \cup {Append(f, f[1]) : f \in {g \in Arrangements(S) : Len(g) > 0}}

\* One mapping per listed member.
Split(f) ==
    [i \in 1..Len(f) |-> [RoleId |-> f[i].RoleId, Members |-> <<Listed(f[i])>>]]

\* Neighbours of the same role share a mapping.
RECURSIVE Merged(_)
Merged(f) ==
    IF Len(f) = 0
    THEN << >>
    ELSE LET rest == Merged(Tail(f))
         IN  IF Len(rest) > 0 /\ rest[1].RoleId = f[1].RoleId
             THEN <<[rest[1] EXCEPT !.Members = <<Listed(f[1])>> \o @]>>
                  \o Tail(rest)
             ELSE <<[RoleId |-> f[1].RoleId, Members |-> <<Listed(f[1])>>]>>
                  \o rest

\* The answers MemberMappings a truthful server can give for the members S:
\* any order, split or merged by role, with or without a role that has no
\* member.
Listings(S) ==
    UNION {{Split(f), Merged(f),
            <<[RoleId |-> "role-9", Members |-> << >>]>> \o Merged(f)} :
              f \in Orders(S)}

\* grantMembership
GrantExecute(remote, call, out) ==
    CASE out = "unreachable" -> Unreachable(remote)
      [] out = "rejected" -> Failed(HttpServerError, remote)
      [] OTHER -> Succeeded(Nil, remote \cup {Named(call)})

\* revokeMembership
RevokeExecute(remote, call, out) ==
    CASE out = "unreachable" -> Unreachable(remote)
      [] out = "rejected" -> Failed(HttpServerError, remote)
      [] OTHER ->
           IF Named(call) \in remote
           THEN Succeeded(Nil, remote \ {Named(call)})
           ELSE Failed(HttpNotFound, remote)

\* listMemberships: every result the call can have.  owner_gone: the
\* application itself no longer exists and the server answers 404.
ListOutcomes == Outcomes \cup {"owner_gone"}

ListExecute(remote, call, out) ==
    CASE out = "unreachable" -> {Unreachable(remote)}
      [] out = "rejected" -> {Failed(HttpServerError, remote)}
      [] out = "owner_gone" -> {Failed(HttpNotFound, remote)}
      [] OTHER ->
           {Succeeded(<<l>>, remote) : l \in Listings(Visible(remote, call))}

-----------------------------------------------------------------------------
(* Role membership: the handlers *)

\* applicationRoleMembershipResource.Create on plan `data`.
RMCreateHandler(data, prior, remote, fw, out) ==
    IF fw = "get_error"
    THEN Result(prior, remote,
                Invocation("create", Nil, Nil, Nil, FrameworkError,
                           FALSE, FALSE, FALSE))
    ELSE
      LET call == RMCreateCall(data)
          res == GrantExecute(remote, call, out)
      IN  IF res.err # Nil
          THEN IF res.resp = Nil
               THEN \* apiResponse.Body on a nil *http.Response
                    Result(prior, res.remote,
                           Invocation("create", <<data>>, <<call>>, res, Nil,
                                      TRUE, FALSE, FALSE))
               ELSE Result(prior, res.remote,
                           Invocation("create", <<data>>, <<call>>, res,
                               AddError("Error creating application role membership",
                                   "Could not create application role membership, unexpected error: "
                                   \o res.resp[1].Status \o ": "
                                   \o res.resp[1].Body),
                               FALSE, FALSE, FALSE))
          ELSE IF fw = "set_error"
          THEN Result(prior, res.remote,
                      Invocation("create", <<data>>, <<call>>, res,
                                 FrameworkError, FALSE, FALSE, FALSE))
          ELSE Result(<<RMCreateData(data)>>, res.remote,
                      Invocation("create", <<data>>, <<call>>, res, Nil,
                                 FALSE, FALSE, TRUE))

\* applicationRoleMembershipResource.Read on prior state `data`, given the
\* client's result `res` for the list call.
RMReadHandler(data, prior, fw, call, res) ==
    IF res.err # Nil
    THEN IF res.resp = Nil
         THEN \* apiResponse.StatusCode on a nil *http.Response
              Result(prior, res.remote,
                     Invocation("read", <<data>>, <<call>>, res, Nil,
                                TRUE, FALSE, FALSE))
         ELSE IF res.resp[1].StatusCode = StatusNotFound
         THEN Result(Nil, res.remote,
                     Invocation("read", <<data>>, <<call>>, res, Nil,
                                FALSE, TRUE, FALSE))
         ELSE Result(prior, res.remote,
                     Invocation("read", <<data>>, <<call>>, res,
                         AddError("Error Reading IQ application role membership",
                             "Could not read applicaton role membership with ID "
                             \o ValueString(data.ID) \o ": " \o res.err[1]),
                         FALSE, FALSE, FALSE))
    ELSE
      LET found == ScanMappings(res.body[1], 1, Nil, data,
                                RMReadMember(data)[1], RMReadMember(data)[2])
      IN  IF found = Nil
          THEN Result(Nil, res.remote,
                      Invocation("read", <<data>>, <<call>>, res, Nil,
                                 FALSE, TRUE, FALSE))
          ELSE IF fw = "set_error"
          THEN Result(prior, res.remote,
                      Invocation("read", <<data>>, <<call>>, res,
                                 FrameworkError, FALSE, FALSE, FALSE))
          ELSE Result(<<data>>, res.remote,
                      Invocation("read", <<data>>, <<call>>, res, Nil,
                                 FALSE, FALSE, TRUE))

\* applicationRoleMembershipResource.Delete on prior state `data`.
RMDeleteHandler(data, prior, remote, fw, out) ==
    IF fw = "get_error"
    THEN Result(prior, remote,
                Invocation("delete", Nil, Nil, Nil, FrameworkError,
                           FALSE, FALSE, FALSE))
    ELSE
      LET call == RMDeleteCall(data)
          res == RevokeExecute(remote, call, out)
      IN  IF res.err # Nil
          THEN IF res.resp = Nil
               THEN \* apiResponse.Body on a nil *http.Response
                    Result(prior, res.remote,
                           Invocation("delete", <<data>>, <<call>>, res, Nil,
                                      TRUE, FALSE, FALSE))
               ELSE Result(prior, res.remote,
                           Invocation("delete", <<data>>, <<call>>, res,
                               AddError("Error deleting application role membership",
                                   "Could not delete application role membership, unexpected error: "
                                   \o res.resp[1].Status \o ": "
                                   \o res.resp[1].Body),
                               FALSE, FALSE, FALSE))
          ELSE Result(Nil, res.remote,
                      Invocation("delete", <<data>>, <<call>>, res, Nil,
                                 FALSE, TRUE, FALSE))

-----------------------------------------------------------------------------
(* Role membership: the steps of the host and of the server's administrators *)

RMValidate(cfg) ==
    /\ resource = "application_role_membership"
    /\ rmState = Nil
    /\ rmPlan' = IF RMConfigValid(cfg) THEN <<cfg>> ELSE Nil
    /\ last' = Invocation("validate", <<cfg>>, Nil, Nil,
                   IF RMConfigValid(cfg) THEN Nil
                   ELSE AddError("Invalid Attribute Combination",
                                 "Exactly one of these attributes must be configured: [user_name,group_name]"),
                   FALSE, FALSE, FALSE)
    /\ rmPrev' = IF gone # Nil /\ [gone[1] EXCEPT !.ID = Null] = cfg
                 THEN gone
                 ELSE IF rmPrev # Nil /\ [rmPrev[1] EXCEPT !.ID = Null] = cfg
                 THEN rmPrev
                 ELSE Nil
    /\ gone' = Nil
    /\ createCall' = Nil
    /\ UNCHANGED <<resource, rmState, rmRemote, scVars>>

\* The server holds at most MaxMembers members: no grant beyond that.
RMCreate(fw, out) ==
    /\ resource = "application_role_membership"
    /\ rmPlan # Nil
    /\ rmState = Nil
    /\ Cardinality(rmRemote \cup {Named(RMCreateCall(rmPlan[1]))}) <= MaxMembers
    /\ LET r == RMCreateHandler(rmPlan[1], rmState, rmRemote, fw, out)
       IN  /\ rmState' = r.state
           /\ rmRemote' = r.remote
           /\ last' = r.inv
           /\ createCall' = IF r.state # Nil THEN r.inv.call ELSE Nil
    /\ rmPlan' = Nil
    /\ UNCHANGED <<resource, rmPrev, gone, scVars>>

RMRead(fw, out) ==
    /\ resource = "application_role_membership"
    /\ rmState # Nil \/ gone # Nil
    /\ LET data == IF rmState # Nil THEN rmState[1] ELSE gone[1]
       IN  IF fw = "get_error"
           THEN /\ out = "served"
                /\ last' = Invocation("read", Nil, Nil, Nil, FrameworkError,
                                      FALSE, FALSE, FALSE)
                /\ UNCHANGED <<rmState, rmRemote, gone>>
           ELSE \E res \in ListExecute(rmRemote, RMReadCall(data), out) :
                  LET r == RMReadHandler(data, rmState, fw, RMReadCall(data),
                                         res)
                  IN  /\ rmState' = r.state
                      /\ rmRemote' = r.remote
                      /\ last' = r.inv
                      /\ gone' = IF r.state # Nil THEN Nil ELSE gone
    /\ UNCHANGED <<resource, createCall, rmPlan, rmPrev, scVars>>

RMDelete(fw, out) ==
    /\ resource = "application_role_membership"
    /\ rmState # Nil
    /\ LET r == RMDeleteHandler(rmState[1], rmState, rmRemote, fw, out)
       IN  /\ rmState' = r.state
           /\ rmRemote' = r.remote
           /\ last' = r.inv
           /\ gone' = IF r.state = Nil THEN rmState ELSE gone
    /\ UNCHANGED <<resource, createCall, rmPlan, rmPrev, scVars>>

\* An administrator grants a membership on the server.
RMRemoteGrant(m) ==
    /\ resource = "application_role_membership"
    /\ m \notin rmRemote
    /\ Cardinality(rmRemote) < MaxMembers
    /\ rmRemote' = rmRemote \cup {m}
    /\ last' = Admin
    /\ UNCHANGED <<resource, createCall, rmPlan, rmState, rmPrev, scVars,
                   gone>>

\* An administrator revokes a membership on the server.
RMRemoteRevoke(m) ==
    /\ resource = "application_role_membership"
    /\ m \in rmRemote
    /\ rmRemote' = rmRemote \ {m}
    /\ last' = Admin
    /\ UNCHANGED <<resource, createCall, rmPlan, rmState, rmPrev, scVars,
                   gone>>

-----------------------------------------------------------------------------
(* The specification *)

Init ==
    /\ resource \in {"source_control", "application_role_membership"}
    /\ scPlan = Nil
    /\ scState = Nil
    /\ scRemote = Nil
    /\ scCreated = Nil
    /\ rmPlan = Nil
    /\ rmState = Nil
    /\ rmRemote = {}
    /\ rmPrev = Nil
    /\ gone = Nil
    /\ createCall = Nil
    /\ last = NoOp

Next ==
    \/ \E cfg \in SCConfigs : SCValidate(cfg)
    \/ \E fw \in FrameworkOutcomes, out \in Outcomes, id \in ServerIds :
          SCCreate(fw, out, id)
    \/ \E fw \in FrameworkOutcomes, out \in Outcomes : SCRead(fw, out)
    \/ \E fw \in FrameworkOutcomes \ {"set_error"}, out \in Outcomes :
          SCDelete(fw, out)
    \/ \E dto \in EditedDTOs \cup {ZeroDTO}, id \in ServerIds :
          SCRemoteEdit(dto, id)
    \/ SCRemoteRemove
    \/ \E cfg \in RMConfigs : RMValidate(cfg)
    \/ \E fw \in FrameworkOutcomes, out \in Outcomes : RMCreate(fw, out)
    \/ \E fw \in FrameworkOutcomes, out \in ListOutcomes : RMRead(fw, out)
    \/ \E fw \in FrameworkOutcomes \ {"set_error"}, out \in Outcomes :
          RMDelete(fw, out)
    \/ \E m \in AllMembers : RMRemoteGrant(m)
    \/ \E m \in AllMembers : RMRemoteRevoke(m)

Spec == Init /\ [][Next]_vars

-----------------------------------------------------------------------------
(* Vocabulary of the properties *)

\* The two discriminant attributes of a record of the resource at hand.
Discriminants(rec) ==
    IF resource = "source_control"
    THEN <<rec.OrganizationID, rec.ApplicationID>>
    ELSE <<rec.UserName, rec.GroupName>>

\* How many of the two discriminants a record sets.
SetCount(rec) ==
    (IF Discriminants(rec)[1] # Null THEN 1 ELSE 0)
    + (IF Discriminants(rec)[2] # Null THEN 1 ELSE 0)

\* The state entry of the resource at hand.
StateEntry == IF resource = "source_control" THEN scState ELSE rmState

PlanEntry == IF resource = "source_control" THEN scPlan ELSE rmPlan

\* The last handler issued a remote call.
Called == last.call # Nil

\* The last handler's remote call failed / found no server at all.
CallFailed == Called /\ last.res.err # Nil

TransportFailed == CallFailed /\ last.res.resp = Nil

\* The last handler's remote call was answered with 404.
AnsweredNotFound ==
    /\ CallFailed
    /\ last.res.resp # Nil
    /\ last.res.resp[1].StatusCode = 404

\* The last handler's remote call succeeded.
CallSucceeded == Called /\ last.res.err = Nil

\* The last handler ended with an error diagnostic and did not crash.
RaisedError == last.diag # Nil /\ ~last.panic

-----------------------------------------------------------------------------
(* C1 *)

\* C1: a configuration that sets zero or both of the two discriminant
\* attributes is rejected by validation with an error and never becomes a
\* plan, one that sets exactly one passes; and every remote call (create,
\* fetch, list, delete) is issued for a record that sets exactly one.
C1_ValidationBeforeAnyCall ==
    /\ last.op = "validate" =>
         /\ ~Called
         /\ (SetCount(last.data[1]) # 1) <=> (last.diag # Nil)
         /\ (SetCount(last.data[1]) # 1) => PlanEntry = Nil
         /\ (SetCount(last.data[1]) = 1) => PlanEntry = last.data
    /\ Called => SetCount(last.data[1]) = 1
    /\ PlanEntry # Nil => SetCount(PlanEntry[1]) = 1
    /\ StateEntry # Nil => SetCount(StateEntry[1]) = 1

\* A configuration with both discriminants set has just been rejected.
C1_Witness ==
    /\ last.op = "validate"
    /\ SetCount(last.data[1]) = 2
    /\ last.diag # Nil
    /\ PlanEntry = Nil

-----------------------------------------------------------------------------
(* C2 *)

\* C2: after Create, whatever the remote create/grant call came to, either
\* the call succeeded and the state holds the complete record with its id,
\* or an error diagnostic was raised and the state holds no record; the
\* state never holds a record without an id.
C2_CreateAllOrNothing ==
    /\ (last.op = "create" /\ Called) =>
         \/ /\ CallSucceeded
            /\ last.diag = Nil
            /\ StateEntry # Nil
            /\ StateEntry[1].ID # Null
            /\ [StateEntry[1] EXCEPT !.ID = Null] = last.data[1]
         \/ /\ RaisedError
            /\ StateEntry = Nil
    /\ StateEntry # Nil => StateEntry[1].ID # Null

-----------------------------------------------------------------------------
(* C3 *)

\* The server still holds exactly what the Create of scCreated stored, and
\* the last Read was answered with it.
C3_ReadOfWhatWasCreated ==
    /\ resource = "source_control"
    /\ last.op = "read"
    /\ last.set
    /\ scCreated # Nil
    /\ last.data = scCreated
    /\ last.res.body[1] =
         [RequestBody(SCCreateCall([scCreated[1] EXCEPT !.ID = Null]))
            EXCEPT !.Id = <<ValueString(scCreated[1].ID)>>]

\* C3: a Read that immediately follows a successful source control Create,
\* answered with what was created, yields a state record equal field for
\* field to the one Create wrote (the id apart), also where optional
\* attributes were left unset.
C3_CreateReadRoundTrip ==
    C3_ReadOfWhatWasCreated =>
        [scState[1] EXCEPT !.ID = Null] = [scCreated[1] EXCEPT !.ID = Null]

-----------------------------------------------------------------------------
(* C4 *)

\* C4: a transport failure (no HTTP response) in Create, Read or Delete ends
\* like a remote API error: an error diagnostic that carries the transport's
\* message, no crash.
C4_TransportFailureIsAnError ==
    TransportFailed =>
        /\ ~last.panic
        /\ last.diag # Nil

-----------------------------------------------------------------------------
(* C5 *)

\* The last Read was told the record is absent: 404, or a list without it.
C5_ReportedAbsent ==
    \/ AnsweredNotFound
    \/ /\ resource = "application_role_membership"
       /\ CallSucceeded
       /\ ~\E i \in DOMAIN last.res.body[1] :
             /\ last.res.body[1][i].RoleId = ValueString(last.data[1].RoleId)
             /\ \E j \in DOMAIN last.res.body[1][i].Members :
                  last.res.body[1][i].Members[j] =
                    [Type |-> IF last.data[1].UserName # Null
                              THEN "USER" ELSE "GROUP",
                     UserOrGroupName |->
                        IF last.data[1].UserName # Null
                        THEN last.data[1].UserName[1]
                        ELSE last.data[1].GroupName[1],
                     OwnerType |-> "APPLICATION",
                     OwnerId |-> ValueString(last.data[1].ApplicationId)]

\* C5: a Read told that the record is absent removes it from state and
\* raises no error; every other failed Read raises an error diagnostic and
\* leaves the record where it was.
C5_ReadAbsentRemovesElseError ==
    (last.op = "read" /\ Called) =>
        /\ C5_ReportedAbsent =>
             /\ StateEntry = Nil
             /\ last.removed
             /\ last.diag = Nil
             /\ ~last.panic
        /\ (CallFailed /\ ~C5_ReportedAbsent) =>
             /\ last.diag # Nil
             /\ ~last.removed
             /\ StateEntry = last.data \/ gone = last.data

-----------------------------------------------------------------------------
(* C6 *)

\* The server no longer holds what the record `rec` stands for.
C6_ServerDropped(rec) ==
    IF resource = "source_control"
    THEN ~\E owner \in {<<"organization", rec.OrganizationID>>,
                        <<"application", rec.ApplicationID>>} :
            /\ owner[2] # Null
            /\ scRemote # Nil
            /\ scRemote[1].ownerType = owner[1]
            /\ scRemote[1].internalOwnerId = owner[2][1]
    ELSE ~\E m \in rmRemote :
            /\ m.RoleId = rec.RoleId[1]
            /\ m.OwnerType = "APPLICATION"
            /\ m.OwnerId = rec.ApplicationId[1]
            /\ \/ m.Type = "USER" /\ <<m.UserOrGroupName>> = rec.UserName
               \/ m.Type = "GROUP" /\ <<m.UserOrGroupName>> = rec.GroupName

\* C6: a successful Delete of a created record (any number of successful
\* Reads after its Create) leaves no state entry and no such record on the
\* server; and a Read of the deleted record that the server answers, still
\* not holding the record, signals removal: no entry in state, no error.
C6_DeleteThenReadSignalsRemoval ==
    /\ (last.op = "delete" /\ CallSucceeded) =>
         /\ StateEntry = Nil
         /\ gone = last.data
         /\ C6_ServerDropped(gone[1])
    /\ (/\ last.op = "read"
        /\ gone # Nil
        /\ last.data = gone
        /\ CallSucceeded \/ AnsweredNotFound
        /\ C6_ServerDropped(gone[1])) =>
         /\ StateEntry = Nil
         /\ last.removed
         /\ last.diag = Nil
         /\ ~last.panic

\* A deleted role membership was read while the server, honouring the
\* delete, listed other members only: the Read signalled removal.
C6_Witness ==
    /\ resource = "application_role_membership"
    /\ last.op = "read"
    /\ gone # Nil
    /\ last.data = gone
    /\ CallSucceeded
    /\ Len(last.res.body[1]) > 0
    /\ C6_ServerDropped(gone[1])
    /\ rmState = Nil
    /\ last.removed

-----------------------------------------------------------------------------
(* C7 *)

\* C7: when the remote delete/revoke call fails, Delete raises an error
\* diagnostic and leaves the state entry exactly as it was; the entry goes
\* only after a delete call that succeeded.
C7_FailedDeleteKeepsState ==
    /\ (last.op = "delete" /\ CallFailed) =>
         /\ last.diag # Nil
         /\ ~last.panic
         /\ StateEntry = last.data
    /\ (last.op = "delete" /\ StateEntry = Nil) => CallSucceeded

-----------------------------------------------------------------------------
(* C8 *)

\* The member kind and member name of a role membership record.
C8_Kind(rec) == IF rec.UserName # Null THEN "user" ELSE "group"

C8_Name(rec) ==
    IF rec.UserName # Null THEN rec.UserName[1] ELSE rec.GroupName[1]

\* C8: a successful role membership Create issues the grant call with
\* ("application", application_id, role_id, kind, name) and sets id to
\* application_id_role_id_kind_name; a Create repeated on the identical
\* configuration yields the identical id.
C8_SyntheticId ==
    (/\ resource = "application_role_membership"
     /\ last.op = "create"
     /\ last.set) =>
        /\ rmState # Nil
        /\ rmState[1].ID =
             <<last.data[1].ApplicationId[1] \o "_" \o last.data[1].RoleId[1]
               \o "_" \o C8_Kind(last.data[1]) \o "_"
               \o C8_Name(last.data[1])>>
        /\ last.call[1].ownerType = "application"
        /\ last.call[1].internalOwnerId = last.data[1].ApplicationId[1]
        /\ last.call[1].roleId = last.data[1].RoleId[1]
        /\ last.call[1].memberType = C8_Kind(last.data[1])
        /\ last.call[1].memberName = C8_Name(last.data[1])
        /\ rmPrev # Nil => rmPrev[1] = rmState[1]

\* The scenario of the specification, in a Create repeated after a Delete.
C8_Witness ==
    /\ resource = "application_role_membership"
    /\ last.op = "create"
    /\ last.set
    /\ rmPrev # Nil
    /\ last.data[1].ApplicationId = <<"app-1">>
    /\ last.data[1].RoleId = <<"role-9">>
    /\ last.data[1].UserName = <<"alice">>
    /\ rmState[1].ID = <<"app-1_role-9_user_alice">>

-----------------------------------------------------------------------------
(* C9 *)

-----------------------------------------------------------------------------
(* C10 *)

\* The list of the last Read holds a mapping of the stored role with a
\* member of the stored kind, name, owner kind and owner id.
C10_Listed ==
    \E i \in DOMAIN last.res.body[1] :
        /\ last.res.body[1][i].RoleId = last.data[1].RoleId[1]
        /\ \E j \in DOMAIN last.res.body[1][i].Members :
             LET m == last.res.body[1][i].Members[j]
             IN  /\ m.Type = IF last.data[1].UserName # Null
                             THEN "USER" ELSE "GROUP"
                 /\ m.UserOrGroupName = C8_Name(last.data[1])
                 /\ m.OwnerType = "APPLICATION"
                 /\ m.OwnerId = last.data[1].ApplicationId[1]

\* C10: after a successful membership list, Read keeps the record in state,
\* unchanged, exactly if the list holds such a member; otherwise it signals
\* absence.  The lists of the model come in every order, split or merged by
\* role, with and without a duplicate.
C10_ReadKeepsIffListed ==
    (/\ resource = "application_role_membership"
     /\ last.op = "read"
     /\ CallSucceeded) =>
        /\ C10_Listed =>
             /\ ~last.removed
             /\ last.diag = Nil => rmState = last.data
        /\ ~C10_Listed =>
             /\ last.removed
             /\ rmState = Nil
             /\ last.diag = Nil

\* The scenario of the specification: the state is user alice under
\* role-9, the list holds role-9 with group devs only, Read signals absence.
C10_Witness ==
    /\ resource = "application_role_membership"
    /\ last.op = "read"
    /\ CallSucceeded
    /\ last.data[1].UserName = <<"alice">>
    /\ last.data[1].RoleId = <<"role-9">>
    /\ last.res.body[1] =
         <<[RoleId |-> "role-9",
            Members |-> <<[Type |-> "GROUP", UserOrGroupName |-> "devs",
                           OwnerType |-> "APPLICATION",
                           OwnerId |-> "app-1"]>>]>>
    /\ gone = Nil
    /\ last.removed
    /\ rmState = Nil

-----------------------------------------------------------------------------
(* C11 *)

\* The scope arguments of a request: the owner kind and the owner id.
C11_Scope(call) == <<call.ownerType, call.internalOwnerId>>

\* The arguments that name one membership in a grant or revoke request.
C11_Membership(call) ==
    <<call.ownerType, call.internalOwnerId, call.roleId, call.memberType,
      call.memberName>>

\* C11: a Read or Delete of a record that a successful Create wrote issues
\* its call under the scope kind and scope id of Create's call, and the
\* revoke call of a membership names ("application", application_id,
\* role_id, member kind, member name) exactly as the grant call did; Reads
\* in between, which rewrite the state, do not change this.
C11_SameScopeAsCreate ==
    (/\ last.op \in {"read", "delete"}
     /\ Called
     /\ createCall # Nil) =>
        /\ C11_Scope(last.call[1]) = C11_Scope(createCall[1])
        /\ (resource = "application_role_membership" /\ last.op = "delete") =>
               C11_Membership(last.call[1]) = C11_Membership(createCall[1])

\* A Delete of a source control link of an application that a Read has
\* rewritten since Create wrote it.
C11_Witness ==
    /\ resource = "source_control"
    /\ last.op = "delete"
    /\ Called
    /\ createCall # Nil
    /\ scCreated # Nil
    /\ last.data # scCreated
    /\ last.data[1].ApplicationID # Null

-----------------------------------------------------------------------------
(* C12 *)

\* What the synthetic id is derived from: application_id, role_id, member
\* kind, member name.
C12_Identity(rec) ==
    <<ValueString(rec.ApplicationId), ValueString(rec.RoleId),
      RMCreateMember(rec)[1], RMCreateMember(rec)[2]>>

\* The record a successful Create writes for a valid configuration.
C12_Created(cfg) ==
    RMCreateHandler(cfg, Nil, {}, "ok", "served").state

\* C12: the record a successful membership Create has just written carries
\* an id that Create gives to no valid configuration that differs from it in
\* application_id, role_id, member kind or member name, also when these
\* values contain "_".
C12_SyntheticIdInjective ==
    (/\ resource = "application_role_membership"
     /\ last.op = "create"
     /\ rmState # Nil) =>
        \A cfg \in RMConfigs :
            (/\ RMConfigValid(cfg)
             /\ C12_Identity(cfg) # C12_Identity(rmState[1])) =>
                C12_Created(cfg)[1].ID # rmState[1].ID

=============================================================================
